---------------------------- MODULE Spec2Model ----------------------------
(***************************************************************************)
(* Thermostat controller of src/thermostat.c: a struct of four fields      *)
(* (currentTemp, targetTemp, state, fanSpeed) and five operations on it.   *)
(* The spec calls the operations initialize, setTarget, advanceHeating,    *)
(* advanceCooling and reconcile, and the field `state` the mode.           *)
(***************************************************************************)
EXTENDS Integers, Naturals, FiniteSets, Sequences, TLC

(* ----- enum ThermostatState, enum FanSpeed ----- *)
STATE_IDLE == "STATE_IDLE"
STATE_HEATING == "STATE_HEATING"
STATE_COOLING == "STATE_COOLING"

FAN_LOW == "FAN_LOW"
FAN_MEDIUM == "FAN_MEDIUM"
FAN_HIGH == "FAN_HIGH"

ThermostatState == {STATE_IDLE, STATE_HEATING, STATE_COOLING}

FanSpeed == {FAN_LOW, FAN_MEDIUM, FAN_HIGH}

(* ----- bounds ----- *)
\* setTargetTemp accepts any int; the calls of the model pass every value
\* from ArgSlack below the accepted range to ArgSlack above it.
ArgSlack == 2

TargetArgs == (16 - ArgSlack)..(30 + ArgSlack)

(* ----- the five functions, as functions of the struct ----- *)
\* variant: the measured temperature starts at the default target
initThermostat_CurrentAtTarget(th) ==
    [currentTemp |-> 22, targetTemp |-> 22, state |-> STATE_IDLE, fanSpeed |-> FAN_LOW]

\* variant: targetTemp is not reset
initThermostat_KeepsTarget(th) ==
    [currentTemp |-> 20, targetTemp |-> th.targetTemp, state |-> STATE_IDLE, fanSpeed |-> FAN_LOW]

initThermostat(th) ==
    [currentTemp |-> 20, targetTemp |-> 22, state |-> STATE_IDLE, fanSpeed |-> FAN_LOW]

\* variant: the test newTarget != targetTemp is missing
setTargetTemp_NoSameCheck(th, newTarget) ==
    IF newTarget >= 16 /\ newTarget <= 30
    THEN IF newTarget > th.currentTemp
         THEN [th EXCEPT !.targetTemp = newTarget, !.state = STATE_HEATING, !.fanSpeed = FAN_HIGH]
         ELSE IF newTarget < th.currentTemp
              THEN [th EXCEPT !.targetTemp = newTarget, !.state = STATE_COOLING, !.fanSpeed = FAN_HIGH]
              ELSE [th EXCEPT !.targetTemp = newTarget, !.state = STATE_IDLE, !.fanSpeed = FAN_LOW]
    ELSE th

\* variant: the two comparisons with currentTemp are exchanged
setTargetTemp_Swapped(th, newTarget) ==
    IF newTarget >= 16 /\ newTarget <= 30 /\ newTarget # th.targetTemp
    THEN IF newTarget < th.currentTemp
         THEN [th EXCEPT !.targetTemp = newTarget, !.state = STATE_HEATING, !.fanSpeed = FAN_HIGH]
         ELSE IF newTarget > th.currentTemp
              THEN [th EXCEPT !.targetTemp = newTarget, !.state = STATE_COOLING, !.fanSpeed = FAN_HIGH]
              ELSE [th EXCEPT !.targetTemp = newTarget, !.state = STATE_IDLE, !.fanSpeed = FAN_LOW]
    ELSE th

\* variant: the first comparison is >= instead of >
setTargetTemp_GeHeats(th, newTarget) ==
    IF newTarget >= 16 /\ newTarget <= 30 /\ newTarget # th.targetTemp
    THEN IF newTarget >= th.currentTemp
         THEN [th EXCEPT !.targetTemp = newTarget, !.state = STATE_HEATING, !.fanSpeed = FAN_HIGH]
         ELSE IF newTarget < th.currentTemp
              THEN [th EXCEPT !.targetTemp = newTarget, !.state = STATE_COOLING, !.fanSpeed = FAN_HIGH]
              ELSE [th EXCEPT !.targetTemp = newTarget, !.state = STATE_IDLE, !.fanSpeed = FAN_LOW]
    ELSE th

\* variant: the cooling branch sets FAN_MEDIUM
setTargetTemp_CoolingMedium(th, newTarget) ==
    IF newTarget >= 16 /\ newTarget <= 30 /\ newTarget # th.targetTemp
    THEN IF newTarget > th.currentTemp
         THEN [th EXCEPT !.targetTemp = newTarget, !.state = STATE_HEATING, !.fanSpeed = FAN_HIGH]
         ELSE IF newTarget < th.currentTemp
              THEN [th EXCEPT !.targetTemp = newTarget, !.state = STATE_COOLING, !.fanSpeed = FAN_MEDIUM]
              ELSE [th EXCEPT !.targetTemp = newTarget, !.state = STATE_IDLE, !.fanSpeed = FAN_LOW]
    ELSE th

\* variant: the test newTarget <= 30 is missing
setTargetTemp_NoUpperBound(th, newTarget) ==
    IF newTarget >= 16 /\ newTarget # th.targetTemp
    THEN IF newTarget > th.currentTemp
         THEN [th EXCEPT !.targetTemp = newTarget, !.state = STATE_HEATING, !.fanSpeed = FAN_HIGH]
         ELSE IF newTarget < th.currentTemp
              THEN [th EXCEPT !.targetTemp = newTarget, !.state = STATE_COOLING, !.fanSpeed = FAN_HIGH]
              ELSE [th EXCEPT !.targetTemp = newTarget, !.state = STATE_IDLE, !.fanSpeed = FAN_LOW]
    ELSE th

\* variant: the test newTarget >= 16 is missing
setTargetTemp_NoLowerBound(th, newTarget) ==
    IF newTarget <= 30 /\ newTarget # th.targetTemp
    THEN IF newTarget > th.currentTemp
         THEN [th EXCEPT !.targetTemp = newTarget, !.state = STATE_HEATING, !.fanSpeed = FAN_HIGH]
         ELSE IF newTarget < th.currentTemp
              THEN [th EXCEPT !.targetTemp = newTarget, !.state = STATE_COOLING, !.fanSpeed = FAN_HIGH]
              ELSE [th EXCEPT !.targetTemp = newTarget, !.state = STATE_IDLE, !.fanSpeed = FAN_LOW]
    ELSE th

\* variant: the equal branch leaves state and fanSpeed as they were
setTargetTemp_EqualKeepsState(th, newTarget) ==
    IF newTarget >= 16 /\ newTarget <= 30 /\ newTarget # th.targetTemp
    THEN IF newTarget > th.currentTemp
         THEN [th EXCEPT !.targetTemp = newTarget, !.state = STATE_HEATING, !.fanSpeed = FAN_HIGH]
         ELSE IF newTarget < th.currentTemp
              THEN [th EXCEPT !.targetTemp = newTarget, !.state = STATE_COOLING, !.fanSpeed = FAN_HIGH]
              ELSE [th EXCEPT !.targetTemp = newTarget]
    ELSE th

setTargetTemp(th, newTarget) ==
    IF newTarget >= 16 /\ newTarget <= 30 /\ newTarget # th.targetTemp
    THEN IF newTarget > th.currentTemp
         THEN [th EXCEPT !.targetTemp = newTarget, !.state = STATE_HEATING, !.fanSpeed = FAN_HIGH]
         ELSE IF newTarget < th.currentTemp
              THEN [th EXCEPT !.targetTemp = newTarget, !.state = STATE_COOLING, !.fanSpeed = FAN_HIGH]
              ELSE [th EXCEPT !.targetTemp = newTarget, !.state = STATE_IDLE, !.fanSpeed = FAN_LOW]
    ELSE th

\* variant: the else branch that sets FAN_MEDIUM is missing
increaseTemp_NoMedium(th) ==
    IF th.state = STATE_HEATING /\ th.currentTemp < th.targetTemp
    THEN IF th.currentTemp + 1 = th.targetTemp
         THEN [th EXCEPT !.currentTemp = th.currentTemp + 1, !.state = STATE_IDLE, !.fanSpeed = FAN_LOW]
         ELSE [th EXCEPT !.currentTemp = th.currentTemp + 1]
    ELSE th

\* variant: currentTemp == targetTemp is tested before the increment
increaseTemp_TestBeforeIncrement(th) ==
    IF th.state = STATE_HEATING /\ th.currentTemp < th.targetTemp
    THEN IF th.currentTemp = th.targetTemp
         THEN [th EXCEPT !.currentTemp = th.currentTemp + 1, !.state = STATE_IDLE, !.fanSpeed = FAN_LOW]
         ELSE [th EXCEPT !.currentTemp = th.currentTemp + 1, !.fanSpeed = FAN_MEDIUM]
    ELSE th

\* variant: reaching the target sets STATE_IDLE but not FAN_LOW
increaseTemp_NoFanLow(th) ==
    IF th.state = STATE_HEATING /\ th.currentTemp < th.targetTemp
    THEN IF th.currentTemp + 1 = th.targetTemp
         THEN [th EXCEPT !.currentTemp = th.currentTemp + 1, !.state = STATE_IDLE]
         ELSE [th EXCEPT !.currentTemp = th.currentTemp + 1, !.fanSpeed = FAN_MEDIUM]
    ELSE th

\* variant: the step is two degrees
increaseTemp_StepTwo(th) ==
    IF th.state = STATE_HEATING /\ th.currentTemp < th.targetTemp
    THEN IF th.currentTemp + 2 = th.targetTemp
         THEN [th EXCEPT !.currentTemp = th.currentTemp + 2, !.state = STATE_IDLE, !.fanSpeed = FAN_LOW]
         ELSE [th EXCEPT !.currentTemp = th.currentTemp + 2, !.fanSpeed = FAN_MEDIUM]
    ELSE th

\* variant: the guard compares with <= instead of <
increaseTemp_GuardLe(th) ==
    IF th.state = STATE_HEATING /\ th.currentTemp <= th.targetTemp
    THEN IF th.currentTemp + 1 = th.targetTemp
         THEN [th EXCEPT !.currentTemp = th.currentTemp + 1, !.state = STATE_IDLE, !.fanSpeed = FAN_LOW]
         ELSE [th EXCEPT !.currentTemp = th.currentTemp + 1, !.fanSpeed = FAN_MEDIUM]
    ELSE th

increaseTemp(th) ==
    IF th.state = STATE_HEATING /\ th.currentTemp < th.targetTemp
    THEN IF th.currentTemp + 1 = th.targetTemp
         THEN [th EXCEPT !.currentTemp = th.currentTemp + 1, !.state = STATE_IDLE, !.fanSpeed = FAN_LOW]
         ELSE [th EXCEPT !.currentTemp = th.currentTemp + 1, !.fanSpeed = FAN_MEDIUM]
    ELSE th

\* variant: currentTemp == targetTemp is tested before the decrement
decreaseTemp_TestBeforeDecrement(th) ==
    IF th.state = STATE_COOLING /\ th.currentTemp > th.targetTemp
    THEN IF th.currentTemp = th.targetTemp
         THEN [th EXCEPT !.currentTemp = th.currentTemp - 1, !.state = STATE_IDLE, !.fanSpeed = FAN_LOW]
         ELSE [th EXCEPT !.currentTemp = th.currentTemp - 1, !.fanSpeed = FAN_MEDIUM]
    ELSE th

\* variant: the else branch that sets FAN_MEDIUM is missing
decreaseTemp_NoMedium(th) ==
    IF th.state = STATE_COOLING /\ th.currentTemp > th.targetTemp
    THEN IF th.currentTemp - 1 = th.targetTemp
         THEN [th EXCEPT !.currentTemp = th.currentTemp - 1, !.state = STATE_IDLE, !.fanSpeed = FAN_LOW]
         ELSE [th EXCEPT !.currentTemp = th.currentTemp - 1]
    ELSE th

\* variant: currentTemp++ copied from increaseTemp
decreaseTemp_Increments(th) ==
    IF th.state = STATE_COOLING /\ th.currentTemp > th.targetTemp
    THEN IF th.currentTemp + 1 = th.targetTemp
         THEN [th EXCEPT !.currentTemp = th.currentTemp + 1, !.state = STATE_IDLE, !.fanSpeed = FAN_LOW]
         ELSE [th EXCEPT !.currentTemp = th.currentTemp + 1, !.fanSpeed = FAN_MEDIUM]
    ELSE th

\* variant: reaching the target leaves STATE_COOLING and sets only FAN_LOW
decreaseTemp_NoIdle(th) ==
    IF th.state = STATE_COOLING /\ th.currentTemp > th.targetTemp
    THEN IF th.currentTemp - 1 = th.targetTemp
         THEN [th EXCEPT !.currentTemp = th.currentTemp - 1, !.fanSpeed = FAN_LOW]
         ELSE [th EXCEPT !.currentTemp = th.currentTemp - 1, !.fanSpeed = FAN_MEDIUM]
    ELSE th

decreaseTemp(th) ==
    IF th.state = STATE_COOLING /\ th.currentTemp > th.targetTemp
    THEN IF th.currentTemp - 1 = th.targetTemp
         THEN [th EXCEPT !.currentTemp = th.currentTemp - 1, !.state = STATE_IDLE, !.fanSpeed = FAN_LOW]
         ELSE [th EXCEPT !.currentTemp = th.currentTemp - 1, !.fanSpeed = FAN_MEDIUM]
    ELSE th

\* variant: the assignment of FAN_LOW is missing
noChange_SkipsFan(th) ==
    IF th.currentTemp = th.targetTemp
    THEN [th EXCEPT !.state = STATE_IDLE]
    ELSE th

\* variant: the test is the assignment currentTemp = targetTemp, which is
\* true for every target the setter accepts
noChange_AssignInTest(th) ==
    IF th.targetTemp # 0
    THEN [th EXCEPT !.currentTemp = th.targetTemp, !.state = STATE_IDLE, !.fanSpeed = FAN_LOW]
    ELSE [th EXCEPT !.currentTemp = th.targetTemp]

noChange(th) ==
    IF th.currentTemp = th.targetTemp
    THEN [th EXCEPT !.state = STATE_IDLE, !.fanSpeed = FAN_LOW]
    ELSE th

(* ----- state ----- *)
\* thermostat: the struct.  The other variables record the caller's view of
\* the last call: which function (lastOp), its argument (lastArg, 0 when it
\* has none), the struct before the call (pre), and the heating run in
\* progress (run): a run starts at a setTargetTemp call that takes effect
\* with the new target above currentTemp, grows by one with each following
\* increaseTemp call and ends at any other call or once it has made
\* target - base calls.  targetSet tells whether a setTargetTemp call has
\* taken effect since the last initThermostat call.
VARIABLES thermostat, lastOp, lastArg, pre, run, targetSet

vars == <<thermostat, lastOp, lastArg, pre, run, targetSet>>

NoRun == [active |-> FALSE, fromInit |-> FALSE, base |-> 0, n |-> 0]

Defaults == initThermostat([currentTemp |-> 0, targetTemp |-> 0, state |-> STATE_IDLE, fanSpeed |-> FAN_LOW])

Effective(th, newTarget) == newTarget >= 16 /\ newTarget <= 30 /\ newTarget # th.targetTemp

Init ==
    /\ thermostat = Defaults
    /\ lastOp = "initThermostat"
    /\ lastArg = 0
    /\ pre = Defaults
    /\ run = NoRun
    /\ targetSet = FALSE

Initialize ==
    /\ thermostat' = initThermostat(thermostat)
    /\ lastOp' = "initThermostat"
    /\ lastArg' = 0
    /\ pre' = thermostat
    /\ run' = NoRun
    /\ targetSet' = FALSE

SetTarget ==
    \E newTarget \in TargetArgs :
        /\ thermostat' = setTargetTemp(thermostat, newTarget)
        /\ lastOp' = "setTargetTemp"
        /\ lastArg' = newTarget
        /\ pre' = thermostat
        /\ run' = IF Effective(thermostat, newTarget) /\ newTarget > thermostat.currentTemp
                  THEN [active |-> TRUE, fromInit |-> (thermostat = Defaults),
                        base |-> thermostat.currentTemp, n |-> 0]
                  ELSE NoRun
        /\ targetSet' = (targetSet \/ Effective(thermostat, newTarget))

AdvanceHeating ==
    /\ thermostat' = increaseTemp(thermostat)
    /\ lastOp' = "increaseTemp"
    /\ lastArg' = 0
    /\ pre' = thermostat
    /\ run' = IF run.active /\ run.n < thermostat.targetTemp - run.base
              THEN [run EXCEPT !.n = run.n + 1]
              ELSE NoRun
    /\ UNCHANGED targetSet

AdvanceCooling ==
    /\ thermostat' = decreaseTemp(thermostat)
    /\ lastOp' = "decreaseTemp"
    /\ lastArg' = 0
    /\ pre' = thermostat
    /\ run' = NoRun
    /\ UNCHANGED targetSet

Reconcile ==
    /\ thermostat' = noChange(thermostat)
    /\ lastOp' = "noChange"
    /\ lastArg' = 0
    /\ pre' = thermostat
    /\ run' = NoRun
    /\ UNCHANGED targetSet

Next ==
    \/ Initialize
    \/ SetTarget
    \/ AdvanceHeating
    \/ AdvanceCooling
    \/ Reconcile

Spec == Init /\ [][Next]_vars

\* The driving loop of the spec (section 6): once per tick the caller calls
\* the advance function that matches the current state.
Tick ==
    \/ (thermostat.state = STATE_HEATING /\ AdvanceHeating)
    \/ (thermostat.state = STATE_COOLING /\ AdvanceCooling)

LiveSpec == Init /\ [][Next]_vars /\ WF_vars(Tick)

\* The struct is a plain mutable value of the caller: section 4.1 of the spec
\* lets the caller adjust currentTemp itself (a new measurement) between
\* calls.  ExtSpec is the machine with such adjustments; Spec is the machine
\* driven by the five functions alone.
TempValues == (16 - ArgSlack)..(30 + ArgSlack)

ExternalSet ==
    \E v \in TempValues :
        /\ thermostat' = [thermostat EXCEPT !.currentTemp = v]
        /\ lastOp' = "external"
        /\ lastArg' = v
        /\ pre' = thermostat
        /\ run' = NoRun
        /\ UNCHANGED targetSet

NextExt ==
    \/ Initialize
    \/ SetTarget
    \/ AdvanceHeating
    \/ AdvanceCooling
    \/ Reconcile
    \/ ExternalSet

ExtSpec == Init /\ [][NextExt]_vars

TypeOK ==
    /\ thermostat.currentTemp \in Int
    /\ thermostat.targetTemp \in Int
    /\ thermostat.state \in ThermostatState
    /\ thermostat.fanSpeed \in FanSpeed

(* ----- names the claims use ----- *)
InRange(t) == t >= 16 /\ t <= 30

LastWasSetTarget == lastOp = "setTargetTemp"

\* the last call was a setTarget(t) with t in range and different from the
\* target the struct had before the call
LastSetTookEffect == LastWasSetTarget /\ InRange(lastArg) /\ lastArg # pre.targetTemp

\* C1: setTarget(t) with t < 16, t > 30 or t equal to the current target
\* leaves currentTemp, targetTemp, mode and fanSpeed as they were, and the
\* struct stays a legal one (no error state).
C1_RejectedSetTargetIsNoOp ==
    (LastWasSetTarget /\ (lastArg < 16 \/ lastArg > 30 \/ lastArg = pre.targetTemp))
        => /\ thermostat.currentTemp = pre.currentTemp
           /\ thermostat.targetTemp = pre.targetTemp
           /\ thermostat.state = pre.state
           /\ thermostat.fanSpeed = pre.fanSpeed
           /\ thermostat.state \in ThermostatState
           /\ thermostat.fanSpeed \in FanSpeed

C1_Witness ==
    /\ LastWasSetTarget
    /\ lastArg = pre.targetTemp
    /\ pre.state = STATE_HEATING
    /\ pre.fanSpeed = FAN_MEDIUM
    /\ thermostat = pre

\* C2: setTarget(t) with 16 <= t <= 30 and t different from the target sets
\* targetTemp to t, keeps currentTemp, and gives Heating/High when t is above
\* currentTemp, Cooling/High when below, Idle/Low when equal.
C2_EffectiveSetTarget ==
    LastSetTookEffect
        => /\ thermostat.targetTemp = lastArg
           /\ thermostat.currentTemp = pre.currentTemp
           /\ (lastArg > pre.currentTemp
                 => thermostat.state = STATE_HEATING /\ thermostat.fanSpeed = FAN_HIGH)
           /\ (lastArg < pre.currentTemp
                 => thermostat.state = STATE_COOLING /\ thermostat.fanSpeed = FAN_HIGH)
           /\ (lastArg = pre.currentTemp
                 => thermostat.state = STATE_IDLE /\ thermostat.fanSpeed = FAN_LOW)

C2_Witness ==
    /\ LastSetTookEffect
    /\ pre.state = STATE_HEATING
    /\ lastArg < pre.currentTemp
    /\ thermostat.state = STATE_COOLING
    /\ thermostat.fanSpeed = FAN_HIGH

\* the heating run in progress started with setTarget(22+k), k >= 1, made in
\* the initialized state
RunFromInit == run.active /\ run.fromInit /\ thermostat.targetTemp - 22 >= 1

\* C3 as stated: from the initialized state, setTarget(22+k) followed by
\* exactly k advanceHeating calls reaches Idle, Low, currentTemp = targetTemp.
C3_AsStated ==
    (RunFromInit /\ run.n = thermostat.targetTemp - 22)
        => /\ thermostat.state = STATE_IDLE
           /\ thermostat.fanSpeed = FAN_LOW
           /\ thermostat.currentTemp = thermostat.targetTemp

\* C3 amended: from the initialized state (currentTemp 20, targetTemp 22),
\* setTarget(22+k) followed by exactly k+2 advanceHeating calls reaches Idle,
\* Low, currentTemp = targetTemp; after only k calls the struct is still
\* Heating with currentTemp = 20+k, two below the target.
C3_ConvergenceFromInit ==
    /\ (RunFromInit /\ run.n = thermostat.targetTemp - 22 + 2)
          => /\ thermostat.state = STATE_IDLE
             /\ thermostat.fanSpeed = FAN_LOW
             /\ thermostat.currentTemp = thermostat.targetTemp
    /\ (RunFromInit /\ run.n = thermostat.targetTemp - 22)
          => /\ thermostat.state = STATE_HEATING
             /\ thermostat.currentTemp = 20 + run.n
             /\ thermostat.currentTemp = thermostat.targetTemp - 2

C3_Witness ==
    /\ RunFromInit
    /\ thermostat.targetTemp = 30
    /\ run.n = 10
    /\ thermostat.state = STATE_IDLE
    /\ thermostat.currentTemp = 30

\* C4: after a setTarget(t) that takes effect in a state with currentTemp
\* c < t, the n-th of the consecutive advanceHeating calls leaves Heating,
\* Medium and currentTemp = c + n for 1 <= n < t - c, and the (t - c)-th
\* call is the one that gives Idle, Low and currentTemp = t.
C4_HeatingRun ==
    run.active
        => /\ (run.n = 0
                 => thermostat.state = STATE_HEATING /\ thermostat.currentTemp = run.base)
           /\ (run.n >= 1 /\ run.n < thermostat.targetTemp - run.base
                 => /\ lastOp = "increaseTemp"
                    /\ thermostat.state = STATE_HEATING
                    /\ thermostat.fanSpeed = FAN_MEDIUM
                    /\ thermostat.currentTemp = run.base + run.n
                    /\ thermostat.currentTemp = pre.currentTemp + 1)
           /\ (run.n = thermostat.targetTemp - run.base
                 => /\ lastOp = "increaseTemp"
                    /\ thermostat.state = STATE_IDLE
                    /\ thermostat.fanSpeed = FAN_LOW
                    /\ thermostat.currentTemp = thermostat.targetTemp
                    /\ pre.state = STATE_HEATING)
           /\ run.n <= thermostat.targetTemp - run.base

\* the spec's scenario: initialize, setTarget(25), 5th advanceHeating call
C4_Witness ==
    /\ run.active
    /\ run.fromInit
    /\ run.base = 20
    /\ thermostat.targetTemp = 25
    /\ run.n = 5
    /\ thermostat.state = STATE_IDLE
    /\ thermostat.fanSpeed = FAN_LOW
    /\ thermostat.currentTemp = 25

\* a step that is neither a setTarget nor an initialize call
NoCommand == lastOp' \notin {"setTargetTemp", "initThermostat"}

Settled ==
    /\ thermostat.state = STATE_IDLE
    /\ thermostat.fanSpeed = FAN_LOW
    /\ thermostat.currentTemp = thermostat.targetTemp

\* C5 as stated: if from some point on no setTarget or initialize call is made
\* and the caller keeps calling the matching advance operation, then
\* eventually mode = Idle, currentTemp = targetTemp and fanSpeed = Low for good.
C5_AsStated == <>[][NoCommand]_vars => <>[]Settled

\* C5 amended: under the same hypothesis mode eventually is Idle with
\* fanSpeed = Low for good, and currentTemp = targetTemp then holds unless the
\* struct is still the initialized one (20, 22, Idle, Low), which no advance
\* call changes.
C5_DrivingLoopSettles ==
    <>[][NoCommand]_vars
        => <>[](/\ thermostat.state = STATE_IDLE
                /\ thermostat.fanSpeed = FAN_LOW
                /\ (thermostat.currentTemp = thermostat.targetTemp \/ thermostat = Defaults))

C5_Witness ==
    /\ lastOp = "decreaseTemp"
    /\ pre.state = STATE_COOLING
    /\ pre.fanSpeed = FAN_MEDIUM
    /\ Settled

\* C6: in every reachable state mode = Idle implies fanSpeed = Low.
C6_IdleImpliesLow == thermostat.state = STATE_IDLE => thermostat.fanSpeed = FAN_LOW

C6_Witness ==
    /\ lastOp = "increaseTemp"
    /\ pre.state = STATE_HEATING
    /\ pre.fanSpeed = FAN_HIGH
    /\ thermostat.state = STATE_IDLE
    /\ thermostat.fanSpeed = FAN_LOW

\* C7: in every reachable state mode = Heating implies currentTemp <=
\* targetTemp and mode = Cooling implies currentTemp > targetTemp.
C7_ModeMatchesDelta ==
    /\ thermostat.state = STATE_HEATING => thermostat.currentTemp <= thermostat.targetTemp
    /\ thermostat.state = STATE_COOLING => thermostat.currentTemp > thermostat.targetTemp

C7_Witness ==
    /\ lastOp = "decreaseTemp"
    /\ thermostat.state = STATE_COOLING
    /\ thermostat.currentTemp = pre.currentTemp - 1
    /\ thermostat.currentTemp = thermostat.targetTemp + 1

\* the mode changes of the state-machine summary, for the last call
ListedModeChange ==
    \/ /\ pre.state = STATE_IDLE
       /\ thermostat.state \in {STATE_HEATING, STATE_COOLING}
       /\ lastOp = "setTargetTemp"
    \/ /\ pre.state = STATE_HEATING
       /\ thermostat.state = STATE_IDLE
       /\ \/ lastOp = "increaseTemp" /\ thermostat.currentTemp = thermostat.targetTemp
          \/ lastOp = "setTargetTemp" /\ lastArg = pre.currentTemp
          \/ lastOp = "noChange"
    \/ /\ pre.state = STATE_COOLING
       /\ thermostat.state = STATE_IDLE
       /\ \/ lastOp = "decreaseTemp" /\ thermostat.currentTemp = thermostat.targetTemp
          \/ lastOp = "setTargetTemp" /\ lastArg = pre.currentTemp
          \/ lastOp = "noChange"

\* setTarget with a target on the other side of currentTemp
DirectReversal ==
    /\ lastOp = "setTargetTemp"
    /\ \/ /\ pre.state = STATE_HEATING
          /\ thermostat.state = STATE_COOLING
          /\ lastArg < pre.currentTemp
       \/ /\ pre.state = STATE_COOLING
          /\ thermostat.state = STATE_HEATING
          /\ lastArg > pre.currentTemp

\* C8 as stated: initialize aside, a call either leaves the mode as it was or
\* makes one of the listed changes; no call takes Heating to Cooling or
\* Cooling to Heating.
C8_AsStated ==
    (lastOp # "initThermostat" /\ thermostat.state # pre.state) => ListedModeChange

\* C8 amended: initialize aside, a call either leaves the mode as it was,
\* makes one of the listed changes, or is a setTarget with a valid new target
\* on the other side of currentTemp, which takes Heating directly to Cooling
\* or Cooling directly to Heating; the advance operations and reconcile never
\* do that, and a setTarget call enters Heating only with t > currentTemp and
\* Cooling only with t < currentTemp.
C8_ModeTransitions ==
    (lastOp # "initThermostat" /\ thermostat.state # pre.state)
        => /\ ListedModeChange \/ DirectReversal
           /\ thermostat.state = STATE_HEATING => lastArg > pre.currentTemp
           /\ thermostat.state = STATE_COOLING => lastArg < pre.currentTemp

C8_Witness ==
    /\ lastOp = "setTargetTemp"
    /\ pre.state = STATE_COOLING
    /\ pre.fanSpeed = FAN_MEDIUM
    /\ thermostat.state = STATE_HEATING

\* C9: fanSpeed = High occurs only with mode Heating or Cooling, and the next
\* call of the matching advance operation takes effect and leaves fanSpeed
\* Medium or Low.
C9_HighIsTransient ==
    /\ thermostat.fanSpeed = FAN_HIGH => thermostat.state \in {STATE_HEATING, STATE_COOLING}
    /\ (lastOp = "increaseTemp" /\ pre.fanSpeed = FAN_HIGH /\ pre.state = STATE_HEATING)
          => /\ thermostat.fanSpeed \in {FAN_MEDIUM, FAN_LOW}
             /\ thermostat.currentTemp = pre.currentTemp + 1
    /\ (lastOp = "decreaseTemp" /\ pre.fanSpeed = FAN_HIGH /\ pre.state = STATE_COOLING)
          => /\ thermostat.fanSpeed \in {FAN_MEDIUM, FAN_LOW}
             /\ thermostat.currentTemp = pre.currentTemp - 1

C9_Witness ==
    /\ lastOp = "decreaseTemp"
    /\ pre.fanSpeed = FAN_HIGH
    /\ pre.state = STATE_COOLING
    /\ thermostat.fanSpeed = FAN_MEDIUM
    /\ thermostat.state = STATE_COOLING

\* C10 as stated: every effective setTarget call made while mode is Heating or
\* Cooling results in fanSpeed = High.
C10_AsStated ==
    (LastSetTookEffect /\ pre.state \in {STATE_HEATING, STATE_COOLING})
        => thermostat.fanSpeed = FAN_HIGH

\* C10 amended: an effective setTarget(t) call made while mode is Heating or
\* Cooling, also with fanSpeed already Medium, results in fanSpeed = High
\* unless t equals currentTemp; then it gives mode = Idle and fanSpeed = Low.
C10_SetTargetResetsFan ==
    (LastSetTookEffect /\ pre.state \in {STATE_HEATING, STATE_COOLING})
        => /\ lastArg # pre.currentTemp => thermostat.fanSpeed = FAN_HIGH
           /\ lastArg = pre.currentTemp
                 => thermostat.state = STATE_IDLE /\ thermostat.fanSpeed = FAN_LOW

C10_Witness ==
    /\ LastSetTookEffect
    /\ pre.state = STATE_COOLING
    /\ pre.fanSpeed = FAN_MEDIUM
    /\ thermostat.state = STATE_COOLING
    /\ thermostat.fanSpeed = FAN_HIGH

\* C11: advanceHeating in a state with mode = Heating and currentTemp <
\* targetTemp raises currentTemp by exactly 1 and keeps targetTemp; if the new
\* currentTemp equals targetTemp it gives Idle and Low, otherwise the mode
\* stays Heating and fanSpeed becomes Medium; currentTemp never passes
\* targetTemp.
C11_AdvanceHeatingEffect ==
    (lastOp = "increaseTemp" /\ pre.state = STATE_HEATING /\ pre.currentTemp < pre.targetTemp)
        => /\ thermostat.currentTemp = pre.currentTemp + 1
           /\ thermostat.targetTemp = pre.targetTemp
           /\ thermostat.currentTemp <= thermostat.targetTemp
           /\ (thermostat.currentTemp = thermostat.targetTemp
                 => thermostat.state = STATE_IDLE /\ thermostat.fanSpeed = FAN_LOW)
           /\ (thermostat.currentTemp # thermostat.targetTemp
                 => thermostat.state = STATE_HEATING /\ thermostat.fanSpeed = FAN_MEDIUM)

C11_Witness ==
    /\ lastOp = "increaseTemp"
    /\ pre.state = STATE_HEATING
    /\ pre.fanSpeed = FAN_MEDIUM
    /\ pre.currentTemp = 28
    /\ pre.targetTemp = 29
    /\ thermostat.currentTemp = 29
    /\ thermostat.state = STATE_IDLE

\* C12: advanceCooling in a state with mode = Cooling and currentTemp >
\* targetTemp lowers currentTemp by exactly 1 and keeps targetTemp; if the new
\* currentTemp equals targetTemp it gives Idle and Low, otherwise the mode
\* stays Cooling and fanSpeed becomes Medium; currentTemp never passes below
\* targetTemp.
C12_AdvanceCoolingEffect ==
    (lastOp = "decreaseTemp" /\ pre.state = STATE_COOLING /\ pre.currentTemp > pre.targetTemp)
        => /\ thermostat.currentTemp = pre.currentTemp - 1
           /\ thermostat.targetTemp = pre.targetTemp
           /\ thermostat.currentTemp >= thermostat.targetTemp
           /\ (thermostat.currentTemp = thermostat.targetTemp
                 => thermostat.state = STATE_IDLE /\ thermostat.fanSpeed = FAN_LOW)
           /\ (thermostat.currentTemp # thermostat.targetTemp
                 => thermostat.state = STATE_COOLING /\ thermostat.fanSpeed = FAN_MEDIUM)

C12_Witness ==
    /\ lastOp = "decreaseTemp"
    /\ pre.state = STATE_COOLING
    /\ pre.fanSpeed = FAN_HIGH
    /\ pre.currentTemp = 20
    /\ pre.targetTemp = 16
    /\ thermostat.currentTemp = 19
    /\ thermostat.fanSpeed = FAN_MEDIUM

\* C13: advanceHeating with mode other than Heating and advanceCooling with
\* mode other than Cooling leave all four fields unchanged, and so does
\* either call when the mode matches but currentTemp equals targetTemp.
C13_AdvanceNoOp ==
    /\ (lastOp = "increaseTemp"
          /\ (pre.state # STATE_HEATING \/ pre.currentTemp = pre.targetTemp))
          => thermostat = pre
    /\ (lastOp = "decreaseTemp"
          /\ (pre.state # STATE_COOLING \/ pre.currentTemp = pre.targetTemp))
          => thermostat = pre

\* mode Heating with currentTemp equal to targetTemp, then advanceHeating
C13_Witness ==
    /\ lastOp = "increaseTemp"
    /\ pre.state = STATE_HEATING
    /\ pre.currentTemp = pre.targetTemp
    /\ thermostat = pre

\* C14: reconcile with currentTemp = targetTemp gives Idle and Low whatever
\* the mode and fan speed were, also in a state where currentTemp was set
\* from outside; with currentTemp # targetTemp it changes nothing; it never
\* changes currentTemp or targetTemp.
C14_ReconcileEffect ==
    lastOp = "noChange"
        => /\ thermostat.currentTemp = pre.currentTemp
           /\ thermostat.targetTemp = pre.targetTemp
           /\ (pre.currentTemp = pre.targetTemp
                 => thermostat.state = STATE_IDLE /\ thermostat.fanSpeed = FAN_LOW)
           /\ (pre.currentTemp # pre.targetTemp => thermostat = pre)

C14_Witness ==
    /\ lastOp = "noChange"
    /\ pre.state = STATE_COOLING
    /\ pre.fanSpeed = FAN_HIGH
    /\ pre.currentTemp = pre.targetTemp
    /\ thermostat.state = STATE_IDLE
    /\ thermostat.fanSpeed = FAN_LOW

\* C15: in every state reachable from initialize by the five operations,
\* 16 <= targetTemp <= 30.
C15_TargetInRange == thermostat.targetTemp >= 16 /\ thermostat.targetTemp <= 30

\* setTarget(31) refused at the upper end of the range
C15_Witness ==
    /\ lastOp = "setTargetTemp"
    /\ lastArg = 31
    /\ pre.targetTemp = 30
    /\ thermostat.targetTemp = 30

\* C16: initialize in any state yields currentTemp = 20, targetTemp = 22,
\* mode = Idle, fanSpeed = Low, whatever the state was.
C16_InitializeResets ==
    lastOp = "initThermostat"
        => /\ thermostat.currentTemp = 20
           /\ thermostat.targetTemp = 22
           /\ thermostat.state = STATE_IDLE
           /\ thermostat.fanSpeed = FAN_LOW

C16_Witness ==
    /\ lastOp = "initThermostat"
    /\ pre.state = STATE_COOLING
    /\ pre.fanSpeed = FAN_MEDIUM
    /\ pre.currentTemp = 29
    /\ pre.targetTemp = 17
    /\ thermostat.currentTemp = 20
    /\ thermostat.targetTemp = 22

\* C17: in every state reachable by the five operations alone,
\* currentTemp = targetTemp implies mode = Idle and fanSpeed = Low, so a
\* reconcile call never changes any field.
C17_ReconcileIsNoOp ==
    /\ thermostat.currentTemp = thermostat.targetTemp
          => thermostat.state = STATE_IDLE /\ thermostat.fanSpeed = FAN_LOW
    /\ lastOp = "noChange" => thermostat = pre

\* the spec's scenario E: setTarget(20) at currentTemp 20, then reconcile
C17_Witness ==
    /\ lastOp = "noChange"
    /\ pre.currentTemp = pre.targetTemp
    /\ pre.currentTemp = 20
    /\ thermostat = pre

\* the struct initThermostat writes, field by field
IsInitialized ==
    /\ thermostat.currentTemp = 20
    /\ thermostat.targetTemp = 22
    /\ thermostat.state = STATE_IDLE
    /\ thermostat.fanSpeed = FAN_LOW

\* C18: once a setTarget call has taken effect since the last initialize,
\* mode = Idle holds exactly when currentTemp = targetTemp; the only
\* reachable state with mode = Idle and currentTemp # targetTemp is the
\* initialized one (20, 22, Idle, Low), reached only with no effective
\* setTarget since initialize, and there the advance calls and setTarget(22)
\* change nothing.
C18_IdleIffAtTarget ==
    /\ targetSet
          => (thermostat.state = STATE_IDLE <=> thermostat.currentTemp = thermostat.targetTemp)
    /\ (thermostat.state = STATE_IDLE /\ thermostat.currentTemp # thermostat.targetTemp)
          => IsInitialized /\ ~targetSet
    /\ (~targetSet /\ (lastOp \in {"increaseTemp", "decreaseTemp"}
                         \/ (lastOp = "setTargetTemp" /\ lastArg = 22)))
          => IsInitialized /\ thermostat = pre

C18_Witness ==
    /\ targetSet
    /\ lastOp = "setTargetTemp"
    /\ lastArg = pre.currentTemp
    /\ pre.state = STATE_HEATING
    /\ thermostat.state = STATE_IDLE
    /\ thermostat.currentTemp = thermostat.targetTemp

\* C19: in every state reachable by the five operations alone,
\* 16 <= currentTemp <= 30.
C19_CurrentInRange == thermostat.currentTemp >= 16 /\ thermostat.currentTemp <= 30

C19_Witness ==
    /\ lastOp = "decreaseTemp"
    /\ pre.currentTemp = 17
    /\ thermostat.currentTemp = 16
    /\ thermostat.state = STATE_IDLE

\* C20: setTarget and reconcile never change currentTemp; advanceHeating,
\* advanceCooling and reconcile never change targetTemp; a step other than
\* initialize changes currentTemp by at most 1.
C20_Frame ==
    /\ lastOp \in {"setTargetTemp", "noChange"}
          => thermostat.currentTemp = pre.currentTemp
    /\ lastOp \in {"increaseTemp", "decreaseTemp", "noChange"}
          => thermostat.targetTemp = pre.targetTemp
    /\ lastOp # "initThermostat"
          => /\ thermostat.currentTemp - pre.currentTemp <= 1
             /\ pre.currentTemp - thermostat.currentTemp <= 1

C20_Witness ==
    /\ lastOp = "noChange"
    /\ pre.state = STATE_HEATING
    /\ pre.currentTemp = 23
    /\ pre.targetTemp = 30
    /\ thermostat.currentTemp = 23
    /\ thermostat.targetTemp = 30

=============================================================================
